---- MODULE Spec2Model ----
(***************************************************************************)
(* Model of src/app.py: a Flask service that loads a Keras classifier at   *)
(* import time, provisions a self-signed certificate pair on disk, and     *)
(* serves POST /detect.                                                    *)
(*                                                                         *)
(* A process runs the module top to bottom: load_model (line 25), the      *)
(* certificate check (lines 69-70), then app.run (lines 113-116).  The     *)
(* process may die at any point of its start (an uncaught exception or a   *)
(* kill) and be started again; the files on disk outlive it.               *)
(***************************************************************************)
EXTENDS Integers, Sequences, FiniteSets, TLC

(* ------------------------------ bounds -------------------------------- *)

\* Number of RSA keys rsa.generate_private_key may hand out in one run.
MaxGen == 2
\* Largest length of the output vector of a model file.
MaxOut == 3
\* Probabilities are k / PScale for k in 0..PScale.
PScale == 2

(* ------------------------- program constants -------------------------- *)

class_labels == <<"mask", "no_mask">>

\* image.resize((224, 224))
InputSide == 224

\* img_to_array(image) / 255.0
PixelMax == 255

\* Status of a response built by jsonify with no explicit status code.
HttpOk == 200

\* Status of the response Flask builds when an exception leaves the view.
HttpServerError == 500

(* ----------------------------- the disk ------------------------------- *)

\* Contents of cert.pem / key.pem: no file, a file that open(.., "wb") has
\* created or truncated and whose write has not completed, or the PEM of
\* the certificate / private key of key number gen.
Absent == [st |-> "absent", gen |-> 0]
Partial == [st |-> "partial", gen |-> 0]
Pem(g) == [st |-> "pem", gen |-> g]

\* The pair that may be on disk before the first start is key number 0.
FileStates == {Absent, Partial} \cup {Pem(g) : g \in 0..MaxGen}

\* os.path.exists
Exists(f) == f.st # "absent"

\* Contents of mask-detector-model.h5: unreadable, or a network with a
\* square input of side inputSize and nOut output units.
BadModelFile == [ok |-> FALSE, inputSize |-> 0, nOut |-> 0]
ModelFiles ==
    {BadModelFile} \cup
    [ok : {TRUE}, inputSize : {InputSide, 96}, nOut : 1..MaxOut]

NoModel == [loaded |-> FALSE, inputSize |-> 0, nOut |-> 0]

(* ---------------------------- requests -------------------------------- *)

Levels == {0, PixelMax}
Modes == {"RGB", "CMYK", "L"}
Sizes == {<<300, 200>>}

Channels(mode) == IF mode = "L" THEN 1 ELSE IF mode = "RGB" THEN 3 ELSE 4

\* Decoded images: a mode, a (width, height) and one pixel (the image is of
\* one colour, with every channel at the same level).
Pictures ==
    {[mode |-> md, size |-> sz, px |-> [c \in 1..Channels(md) |-> v]] :
        md \in Modes, sz \in Sizes, v \in Levels}

\* Byte strings: an image file, or bytes no decoder recognises.
Junk == [magic |-> "junk", pic |-> [mode |-> "L", size |-> <<100, 100>>, px |-> <<0>>]]
ByteStrings == {Junk} \cup [magic : {"PNG"}, pic : Pictures]

\* Base64 texts: the bytes they decode to, and whether the padding is right.
Base64Texts ==
    [padded : {TRUE}, bytes : ByteStrings] \cup [padded : {FALSE}, bytes : {Junk}]

\* Request bodies: well-formed JSON or not, and the parsed object.
NoFields == [k \in {} |-> Junk]
Requests ==
    {[wellFormed |-> FALSE, json |-> NoFields], [wellFormed |-> TRUE, json |-> NoFields]}
    \cup {[wellFormed |-> TRUE, json |-> [image |-> s]] : s \in Base64Texts}

NoRequest == [wellFormed |-> FALSE, json |-> [none |-> TRUE]]

NoResponse == [http |-> 0, body |-> [status |-> "none"]]

VARIABLES
    modelFile,   \* contents of mask-detector-model.h5
    certFile,    \* contents of cert.pem
    keyFile,     \* contents of key.pem
    pc,          \* where the process is
    model,       \* the module-level model handle
    key,         \* the key generate_self_signed_cert holds in memory
    nextGen,     \* number of the next key rsa.generate_private_key returns
    startup,     \* startup steps this process has completed, in order
    diskAtStart, \* <<cert.pem, key.pem>> as this process found them
    request,     \* the request being handled, or the last one handled
    response,    \* the response to it
    steps,       \* the steps detect ran for it, in order
    preds        \* the vector model.predict returned for it

vars ==
    <<modelFile, certFile, keyFile, pc, model, key, nextGen, startup,
      diskAtStart, request, response, steps, preds>>

disk == <<modelFile, certFile, keyFile>>
handler == <<request, response, steps, preds>>

(* ------------------------- the request handler ------------------------ *)

Ok(env) == [ok |-> TRUE, env |-> env, exc |-> ""]
Raise(env, e) == [ok |-> FALSE, env |-> env, exc |-> e]

\* Bind(env, name, v): the locals of detect after  name = v.
Bind(env, name, v) == (name :> v) @@ env

\* Image.convert("RGB") on one pixel.
ToRGB(mode, px) ==
    IF mode = "L" THEN <<px[1], px[1], px[1]>>
    ELSE IF mode = "RGB" THEN px
    ELSE LET Clip(v) == IF v < 0 THEN 0 ELSE v
         IN  <<Clip(PixelMax - px[1] - px[4]),
               Clip(PixelMax - px[2] - px[4]),
               Clip(PixelMax - px[3] - px[4])>>

RECURSIVE MaxFrom(_, _)
MaxFrom(v, i) ==
    IF i = Len(v) THEN v[i]
    ELSE LET rest == MaxFrom(v, i + 1) IN IF v[i] >= rest THEN v[i] ELSE rest

\* np.max
NpMax(v) == MaxFrom(v, 1)

\* A mutant of NpArgMax: the last index holding the maximum.
NpArgMaxLast(v) ==
    (CHOOSE i \in 1..Len(v) :
        v[i] = NpMax(v) /\ \A j \in (i + 1)..Len(v) : v[j] < v[i]) - 1

\* np.argmax: the first index holding the maximum, counted from 0.
NpArgMax(v) ==
    (CHOOSE i \in 1..Len(v) :
        v[i] = NpMax(v) /\ \A j \in 1..(i - 1) : v[j] < v[i]) - 1

\* A mutant of Confidence: the class probabilities added up.
RECURSIVE SumFrom(_, _)
SumFrom(v, i) == IF i > Len(v) THEN 0 ELSE v[i] + SumFrom(v, i + 1)
ConfidenceSum(v) == SumFrom(v, 1)

\* confidence = float(np.max(preds[0]))
Confidence(v) == NpMax(v)

\* A mutant of ResizeTo: the image keeps its size.
ResizeKeep(size) == size

\* image.resize((224, 224)): the new (width, height), whatever the old one.
ResizeTo(size) == <<InputSide, InputSide>>

\* The vectors model.predict may return for a batch of one.
Outputs(m) == [1..m.nOut -> 0..PScale]

\* A mutant of DetectSteps: the forward pass before the image is resized.
DetectStepsPredictEarly ==
    <<"get_json", "image_field", "b64decode", "open", "convert",
      "img_to_array", "scale", "expand_dims", "predict", "resize",
      "argmax", "max", "lookup", "jsonify">>

\* The statements of the try block of detect, in program order.
DetectSteps ==
    <<"get_json", "image_field", "b64decode", "open", "convert", "resize",
      "img_to_array", "scale", "expand_dims", "predict",
      "argmax", "max", "lookup", "jsonify">>

\* One statement of the try block, run on the locals env with the model
\* handle m; out is the vector the forward pass returns if it is run.
Step(name, env, m, out) ==
    CASE name = "get_json" ->
           IF env.request.wellFormed
           THEN Ok(Bind(env, "data", env.request.json))
           ELSE Raise(env, "BadRequest")
      [] name = "image_field" ->
           IF "image" \in DOMAIN env.data
           THEN Ok(Bind(env, "image_data", env.data.image))
           ELSE Raise(env, "KeyError")
      [] name = "b64decode" ->
           IF env.image_data.padded
           THEN Ok(Bind(env, "image_bytes", env.image_data.bytes))
           ELSE Raise(env, "binascii.Error")
      [] name = "open" ->
           IF env.image_bytes.magic = "PNG"
           THEN Ok(Bind(env, "image", env.image_bytes.pic))
           ELSE Raise(env, "UnidentifiedImageError")
      [] name = "convert" ->
           Ok(Bind(env, "image",
                   [mode |-> "RGB", size |-> env.image.size,
                    px |-> ToRGB(env.image.mode, env.image.px)]))
      [] name = "resize" ->
           Ok(Bind(env, "image",
                   [env.image EXCEPT !.size = ResizeTo(env.image.size)]))
      [] name = "img_to_array" ->
           Ok(Bind(env, "img_array",
                   [shape |-> <<env.image.size[2], env.image.size[1],
                                Len(env.image.px)>>,
                    px |-> [c \in 1..Len(env.image.px) |-> <<env.image.px[c], 1>>]]))
      [] name = "scale" ->
           Ok(Bind(env, "img_array",
                   [env.img_array EXCEPT
                      !.px = [c \in DOMAIN env.img_array.px |->
                                <<env.img_array.px[c][1],
                                  env.img_array.px[c][2] * PixelMax>>]]))
      [] name = "expand_dims" ->
           Ok(Bind(env, "img_array",
                   [env.img_array EXCEPT !.shape = <<1>> \o env.img_array.shape]))
      [] name = "predict" ->
           IF env.img_array.shape = <<1, m.inputSize, m.inputSize, 3>>
           THEN Ok(Bind(env, "preds", <<out>>))
           ELSE Raise(env, "ValueError")
      [] name = "argmax" ->
           Ok(Bind(env, "class_index", NpArgMax(env.preds[1])))
      [] name = "max" ->
           Ok(Bind(env, "confidence", Confidence(env.preds[1])))
      [] name = "lookup" ->
           IF env.class_index < Len(class_labels)
           THEN Ok(Bind(env, "prediction", class_labels[env.class_index + 1]))
           ELSE Raise(env, "IndexError")
      [] name = "jsonify" ->
           Ok(Bind(env, "result",
                   [status |-> "success", prediction |-> env.prediction,
                    confidence |-> env.confidence]))

\* The try block: the statements in order, up to the first that raises.
RECURSIVE RunFrom(_, _, _, _, _)
RunFrom(i, env, trace, m, out) ==
    IF i > Len(DetectSteps) THEN [ok |-> TRUE, env |-> env, exc |-> "", steps |-> trace]
    ELSE LET r == Step(DetectSteps[i], env, m, out)
             done == Append(trace, DetectSteps[i])
         IN  IF r.ok THEN RunFrom(i + 1, r.env, done, m, out)
             ELSE [ok |-> FALSE, env |-> env, exc |-> r.exc, steps |-> done]

\* Classes derived from Exception, among those the steps raise.
ExceptionClasses ==
    {"BadRequest", "KeyError", "binascii.Error", "UnidentifiedImageError",
     "ValueError", "IndexError"}

\* A mutant of Caught: except KeyError.
CaughtKeyErrorOnly(e) == e = "KeyError"

\* except Exception as e
Caught(e) == e \in ExceptionClasses

\* detect(): the response, the statements run and the model's output.
DetectResult(req, m, out) ==
    LET r == RunFrom(1, [request |-> req], <<>>, m, out)
        body == IF r.ok THEN r.env.result
                ELSE [status |-> "error", message |-> r.exc]
    IN  [response |-> IF r.ok \/ Caught(r.exc)
                     THEN [http |-> HttpOk, body |-> body]
                     ELSE [http |-> HttpServerError,
                           body |-> [status |-> "unhandled", message |-> r.exc]],
         steps |-> r.steps,
         preds |-> IF "preds" \in DOMAIN r.env THEN r.env.preds[1] ELSE <<>>]

(* ------------------------------ startup ------------------------------- *)

Init ==
    /\ modelFile \in ModelFiles
    /\ certFile \in {Absent, Pem(0)}
    /\ keyFile \in {Absent, Pem(0)}
    /\ pc = "load_model"
    /\ model = NoModel
    /\ key = 0
    /\ nextGen = 1
    /\ startup = <<>>
    /\ diskAtStart = <<certFile, keyFile>>
    /\ request = NoRequest
    /\ response = NoResponse
    /\ steps = <<>>
    /\ preds = <<>>

\* A mutant of LoadModel: a file that cannot be loaded leaves no model and
\* the start goes on.
LoadModelOrNone ==
    /\ pc = "load_model"
    /\ model' = IF modelFile.ok
               THEN [loaded |-> TRUE, inputSize |-> modelFile.inputSize,
                     nOut |-> modelFile.nOut]
               ELSE NoModel
    /\ pc' = "check_cert"
    /\ startup' = Append(startup, "model")
    /\ UNCHANGED <<disk, key, nextGen, diskAtStart, handler>>

\* model = load_model("mask-detector-model.h5"): the handle, or an uncaught
\* exception that ends the process.
LoadModel ==
    /\ pc = "load_model"
    /\ IF modelFile.ok
       THEN /\ model' = [loaded |-> TRUE, inputSize |-> modelFile.inputSize,
                         nOut |-> modelFile.nOut]
            /\ pc' = "check_cert"
            /\ startup' = Append(startup, "model")
       ELSE /\ pc' = "exited"
            /\ UNCHANGED <<model, startup>>
    /\ UNCHANGED <<disk, key, nextGen, diskAtStart, handler>>

\* A mutant of NeedsCert: the pair is made on every start.
NeedsCertAlways(cert, pkey) == TRUE

\* A mutant of NeedsCert: the pair is made only when both files are missing.
NeedsCertBothMissing(cert, pkey) == ~Exists(cert) /\ ~Exists(pkey)

\* not os.path.exists("cert.pem") or not os.path.exists("key.pem")
NeedsCert(cert, pkey) == ~Exists(cert) \/ ~Exists(pkey)

\* The check that guards generate_self_signed_cert.
CheckCert ==
    /\ pc = "check_cert"
    /\ IF NeedsCert(certFile, keyFile)
       THEN /\ pc' = "generate_key"
            /\ UNCHANGED startup
       ELSE /\ pc' = "main"
            /\ startup' = Append(startup, "cert")
    /\ UNCHANGED <<disk, model, key, nextGen, diskAtStart, handler>>

\* key = rsa.generate_private_key(...): a key no earlier call returned.
GenerateKey ==
    /\ pc = "generate_key"
    /\ nextGen <= MaxGen
    /\ key' = nextGen
    /\ nextGen' = nextGen + 1
    /\ pc' = "open_key"
    /\ UNCHANGED <<disk, model, startup, diskAtStart, handler>>

\* open(key_file, "wb"): the file is created, or cut to nothing.
OpenKey ==
    /\ pc = "open_key"
    /\ keyFile' = Partial
    /\ pc' = "write_key"
    /\ UNCHANGED <<modelFile, certFile, model, key, nextGen, startup, diskAtStart, handler>>

\* f.write(key.private_bytes(...)) and the end of the with block.
WriteKey ==
    /\ pc = "write_key"
    /\ keyFile' = Pem(key)
    /\ pc' = "sign_cert"
    /\ UNCHANGED <<modelFile, certFile, model, key, nextGen, startup, diskAtStart, handler>>

\* The certificate is built for key.public_key() and signed with key.
SignCert ==
    /\ pc = "sign_cert"
    /\ pc' = "open_cert"
    /\ UNCHANGED <<disk, model, key, nextGen, startup, diskAtStart, handler>>

\* open(cert_file, "wb")
OpenCert ==
    /\ pc = "open_cert"
    /\ certFile' = Partial
    /\ pc' = "write_cert"
    /\ UNCHANGED <<modelFile, keyFile, model, key, nextGen, startup, diskAtStart, handler>>

\* f.write(cert.public_bytes(...)); generate_self_signed_cert returns.
WriteCert ==
    /\ pc = "write_cert"
    /\ certFile' = Pem(key)
    /\ pc' = "main"
    /\ startup' = Append(startup, "cert")
    /\ UNCHANGED <<modelFile, keyFile, model, key, nextGen, diskAtStart, handler>>

StartupPoints ==
    {"load_model", "check_cert", "generate_key", "open_key", "write_key",
     "sign_cert", "open_cert", "write_cert", "main"}

\* The process dies while starting: a statement raises (nothing at module
\* level catches) or the process is killed.
Abort ==
    /\ pc \in StartupPoints
    /\ pc' = "exited"
    /\ UNCHANGED <<disk, model, key, nextGen, startup, diskAtStart, handler>>

\* A mutant of Main: the server is started as soon as the model is loaded.
MainBeforeCert ==
    /\ pc \in {"check_cert", "main"}
    /\ pc' = "serving"
    /\ startup' = Append(startup, "listen")
    /\ UNCHANGED <<disk, model, key, nextGen, diskAtStart, handler>>

\* app.run(..., ssl_context=('cert.pem', 'key.pem'))
Main ==
    /\ pc = "main"
    /\ pc' = "serving"
    /\ startup' = Append(startup, "listen")
    /\ UNCHANGED <<disk, model, key, nextGen, diskAtStart, handler>>

(* ------------------------------ serving ------------------------------- *)

\* A POST /detect arrives and is routed to detect.
Receive ==
    /\ pc = "serving"
    /\ \E req \in Requests : request' = req
    /\ pc' = "detect"
    /\ response' = NoResponse
    /\ steps' = <<>>
    /\ preds' = <<>>
    /\ UNCHANGED <<disk, model, key, nextGen, startup, diskAtStart>>

\* A mutant of Detect: a request that fails takes the server down.
DetectCrashOnError ==
    /\ pc = "detect"
    /\ \E out \in Outputs(model) :
         LET r == DetectResult(request, model, out)
         IN  /\ response' = r.response
             /\ steps' = r.steps
             /\ preds' = r.preds
             /\ pc' = IF r.response.body.status = "success" THEN "serving" ELSE "exited"
    /\ UNCHANGED <<disk, model, key, nextGen, startup, diskAtStart, request>>

\* detect() runs on the request and the response is sent.
Detect ==
    /\ pc = "detect"
    /\ \E out \in Outputs(model) :
         LET r == DetectResult(request, model, out)
         IN  /\ response' = r.response
             /\ steps' = r.steps
             /\ preds' = r.preds
    /\ pc' = "serving"
    /\ UNCHANGED <<disk, model, key, nextGen, startup, diskAtStart, request>>

\* The serving process is stopped.
Stop ==
    /\ pc = "serving"
    /\ pc' = "exited"
    /\ UNCHANGED <<disk, model, key, nextGen, startup, diskAtStart, handler>>

\* The program is started again: a new process, the same disk.
Restart ==
    /\ pc = "exited"
    /\ pc' = "load_model"
    /\ model' = NoModel
    /\ key' = 0
    /\ startup' = <<>>
    /\ diskAtStart' = <<certFile, keyFile>>
    /\ request' = NoRequest
    /\ response' = NoResponse
    /\ steps' = <<>>
    /\ preds' = <<>>
    /\ UNCHANGED <<disk, nextGen>>

Next ==
    \/ LoadModel
    \/ CheckCert
    \/ GenerateKey
    \/ OpenKey
    \/ WriteKey
    \/ SignCert
    \/ OpenCert
    \/ WriteCert
    \/ Abort
    \/ Main
    \/ Receive
    \/ Detect
    \/ Stop
    \/ Restart

Spec == Init /\ [][Next]_vars

(* ------------------------------ claims -------------------------------- *)

\* A response has been sent for the request in `request`.
Handled == response # NoResponse

HasImageField(req) == req.wellFormed /\ "image" \in DOMAIN req.json

\* The image field is sound base64 of an image file in one of the modes.
ValidImage(req) ==
    /\ HasImageField(req)
    /\ req.json.image.padded
    /\ req.json.image.bytes.magic = "PNG"
    /\ req.json.image.bytes.pic.mode \in {"RGB", "CMYK", "L"}

\* The lowest 1-based index holding the maximum of a sequence of numbers.
FirstMaxIndex(v) ==
    CHOOSE i \in 1..Len(v) :
        /\ \A j \in 1..Len(v) : v[j] <= v[i]
        /\ \A j \in 1..(i - 1) : v[j] < v[i]

ErrorWith(text) == [http |-> HttpOk, body |-> [status |-> "error", message |-> text]]

\* C1: whichever step of detect raises (JSON parsing, the missing image
\* field, base64 decoding, image decoding, the forward pass, the label
\* lookup), the response is a JSON body with status "error" and the
\* exception's text as message, sent with the status code of a success; no
\* response is anything but a success or such an error.
C1_ErrorsCaught ==
    Handled =>
      /\ response.http = HttpOk
      /\ response.body.status \in {"success", "error"}
      /\ response.body.status = "error" => response.body.message # ""
      /\ ~request.wellFormed => response = ErrorWith("BadRequest")
      /\ (request.wellFormed /\ ~HasImageField(request)) =>
            response = ErrorWith("KeyError")
      /\ (HasImageField(request) /\ ~request.json.image.padded) =>
            response = ErrorWith("binascii.Error")
      /\ (HasImageField(request) /\ request.json.image.padded
            /\ request.json.image.bytes.magic # "PNG") =>
            response = ErrorWith("UnidentifiedImageError")
      /\ (ValidImage(request) /\ model.inputSize # InputSide) =>
            response = ErrorWith("ValueError")
      /\ (preds # <<>> /\ FirstMaxIndex(preds) > Len(class_labels)) =>
            response = ErrorWith("IndexError")

\* C1's case: the last step that can raise, the label lookup, raised and
\* the client got the error body.
C1_Witness ==
    /\ pc = "serving"
    /\ Handled
    /\ preds # <<>>
    /\ response = ErrorWith("IndexError")

SuccessInRange ==
    /\ response.http = HttpOk
    /\ response.body.status = "success"
    /\ response.body.prediction \in {"mask", "no_mask"}
    /\ 0 <= response.body.confidence
    /\ response.body.confidence <= PScale

\* C2 as stated: every valid image for which the loaded model returns a
\* vector gets a success with one of the two labels and a confidence in
\* [0, 1], whatever that vector is.
C2_Original == (Handled /\ ValidImage(request) /\ preds # <<>>) => SuccessInRange

\* C2, amended: a valid image reaches a model that takes a 224x224x3 input
\* with a batch it accepts, and every valid image for which the model
\* returns a vector whose first maximum is at an index below the number of
\* labels gets a success with one of the two labels and a confidence in
\* [0, 1].
C2_ValidImageSucceeds ==
    /\ (Handled /\ ValidImage(request) /\ model.inputSize = InputSide) =>
          preds # <<>>
    /\ (/\ Handled
        /\ ValidImage(request)
        /\ preds # <<>>
        /\ FirstMaxIndex(preds) <= Len(class_labels)) => SuccessInRange

C2_Witness ==
    /\ Handled
    /\ ValidImage(request)
    /\ request.json.image.bytes.pic.mode = "CMYK"
    /\ model.nOut = Len(class_labels)
    /\ response.body.status = "success"
    /\ response.body.prediction = "no_mask"

\* C3: in a success the prediction is the label at the lowest index holding
\* the maximum of the model's output, and the confidence is the output at
\* that index.
C3_FirstMaximum ==
    (Handled /\ response.body.status = "success") =>
      /\ preds # <<>>
      /\ response.body.prediction = class_labels[FirstMaxIndex(preds)]
      /\ response.body.confidence = preds[FirstMaxIndex(preds)]

\* C3's case: a tie between the two classes, answered with the first.
C3_Witness ==
    /\ Handled
    /\ response.body.status = "success"
    /\ Len(preds) = 2
    /\ preds[1] = preds[2]
    /\ preds[1] > 0

ProvisioningPoints ==
    {"generate_key", "open_key", "write_key", "sign_cert", "open_cert", "write_cert"}

BothExistedAtStart == Exists(diskAtStart[1]) /\ Exists(diskAtStart[2])

ProvisioningDone == \E i \in DOMAIN startup : startup[i] = "cert"

\* C4: a process that finds both cert.pem and key.pem never generates a
\* pair and leaves both files as it found them.
C4_ExistingPairKept ==
    BothExistedAtStart =>
      /\ pc \notin ProvisioningPoints
      /\ certFile = diskAtStart[1]
      /\ keyFile = diskAtStart[2]

\* C4's case: a later start of a program whose earlier start wrote the pair
\* got through provisioning and is serving.
C4_Witness ==
    /\ BothExistedAtStart
    /\ diskAtStart[1] = Pem(1)
    /\ ProvisioningDone
    /\ pc = "serving"

IsPrefix(a, b) == Len(a) <= Len(b) /\ SubSeq(b, 1, Len(a)) = a

\* C5 as stated: certificate provisioning, then model loading, then
\* listening.
C5_Original == IsPrefix(startup, <<"cert", "model", "listen">>)

\* C5, amended: on every start the steps run in the order model loading
\* (once), certificate provisioning (once), listening; the model load has
\* completed before provisioning begins, and provisioning before listening.
C5_StartupOrder ==
    /\ IsPrefix(startup, <<"model", "cert", "listen">>)
    /\ pc \in ProvisioningPoints \cup {"check_cert"} => startup = <<"model">>
    /\ pc = "main" => startup = <<"model", "cert">>
    /\ pc \in {"serving", "detect"} => startup = <<"model", "cert", "listen">>

\* C5's case: a start that generated a pair and went on to listen.
C5_Witness ==
    /\ pc = "serving"
    /\ startup = <<"model", "cert", "listen">>
    /\ key > 0
    /\ certFile = Pem(key)

\* C6: a start whose model load or key/certificate generation fails ends
\* the process: nothing is retried or replaced, the process never listens,
\* and the only thing that follows is a new process that starts from
\* nothing.  A process that serves has loaded its model and has completed
\* provisioning with both files on disk.
C6_StartupErrorsFatal ==
    [][/\ (pc = "load_model" /\ ~modelFile.ok) => pc' = "exited"
       /\ pc = "exited" =>
            \/ pc' = "exited"
            \/ pc' = "load_model" /\ model' = NoModel /\ startup' = <<>>
       /\ pc' \in {"serving", "detect"} =>
            /\ model'.loaded
            /\ model' = [loaded |-> TRUE, inputSize |-> modelFile.inputSize,
                         nOut |-> modelFile.nOut]
            /\ ProvisioningDone'
            /\ Exists(certFile') /\ Exists(keyFile')]_vars

\* C6's case: generation failed after the model was loaded, and the process
\* is gone without having listened.
C6_Witness ==
    /\ pc = "exited"
    /\ startup = <<"model">>
    /\ keyFile = Partial

C8_BothRewritten ==
    (ProvisioningDone /\ ~BothExistedAtStart) =>
      /\ key > 0
      /\ certFile = Pem(key)
      /\ keyFile = Pem(key)
      /\ certFile # diskAtStart[1]
      /\ keyFile # diskAtStart[2]

\* C8's case: only cert.pem was there, and it has been replaced.
C8_Witness ==
    /\ ProvisioningDone
    /\ diskAtStart = <<Pem(0), Absent>>
    /\ certFile = Pem(key)
    /\ pc = "serving"

ClaimedOrder ==
    <<"get_json", "image_field", "b64decode", "open", "convert", "resize",
      "scale", "expand_dims", "predict">>

InClaimedOrder(x) == \E i \in DOMAIN ClaimedOrder : ClaimedOrder[i] = x

Last(q) == q[Len(q)]

\* C9: the steps of a request run in the order parse, read the field,
\* base64-decode, decode the image, convert, resize, scale, add the batch
\* dimension, forward pass; the first step that fails is the last step run;
\* the forward pass runs at most once, after every step before it.
C9_StepOrder ==
    Handled =>
      LET T == SelectSeq(steps, InClaimedOrder)
      IN  /\ IsPrefix(T, ClaimedOrder)
          /\ ~request.wellFormed => steps = <<"get_json">>
          /\ (request.wellFormed /\ ~HasImageField(request)) =>
                steps = <<"get_json", "image_field">>
          /\ (HasImageField(request) /\ ~request.json.image.padded) =>
                steps = <<"get_json", "image_field", "b64decode">>
          /\ (HasImageField(request) /\ request.json.image.padded
                /\ request.json.image.bytes.magic # "PNG") =>
                steps = <<"get_json", "image_field", "b64decode", "open">>
          /\ (\E i \in DOMAIN steps : steps[i] = "predict") =>
                ValidImage(request) /\ T = ClaimedOrder
          /\ response.body.status = "error" =>
                \A i \in 1..(Len(steps) - 1) : steps[i] # Last(steps)
          /\ response = ErrorWith("ValueError") => Last(steps) = "predict"

\* C9's case: every preprocessing step ran, then the forward pass, once, and
\* it raised.
C9_Witness ==
    /\ Handled
    /\ response = ErrorWith("ValueError")
    /\ Len(steps) = 10

\* C10 as stated: whenever the server listens, cert.pem holds the
\* certificate of the key in key.pem.
C10_MatchingPair ==
    pc \in {"serving", "detect"} =>
      /\ certFile.st = "pem"
      /\ keyFile.st = "pem"
      /\ certFile.gen = keyFile.gen

====
